---- MODULE Spec2Model ----
(***************************************************************************)
(* Booking form of app/components/booking/form.tsx:                        *)
(*   - BookingFormSchema, the selector of the validation schema by action  *)
(*     and booking status, and the parse of a submitted record by the      *)
(*     selected schema;                                                    *)
(*   - BookingForm's start-date / end-date change handlers.                *)
(*                                                                         *)
(* Optional values are sequences of length at most one: <<>> is            *)
(* `undefined`, <<v>> is the value v.  Instants are integers (ticks since  *)
(* the epoch); NaN is the time value of an Invalid Date.                   *)
(***************************************************************************)
EXTENDS Integers, Sequences, FiniteSets, TLC

VARIABLES
    args,       \* the arguments of the BookingFormSchema call, <<>> before it
    schema,     \* what the call produced: "none", a schema, or "threw"
    input,      \* the record handed to the schema and the clock, <<>> before
    outcome,    \* the outcome of the parse
    id,         \* booking.id of the rendered form
    incomingEndDate, \* booking.endDate of the rendered form
    endDate,    \* the endDate state of the form
    startValue, \* the value of the start-date input
    lastEvent,  \* the last event the form handled
    props,      \* status, bookingFlags and permissions of the rendered form
    navigationState, \* useNavigation().state
    view        \* the disabled props of the rendered action buttons

vars == <<args, schema, input, outcome, id, incomingEndDate, endDate,
          startValue, lastEvent, props, navigationState, view>>

schemaVars == <<args, schema, input, outcome>>
formVars == <<id, incomingEndDate, endDate, startValue, lastEvent>>
viewVars == <<props, navigationState, view>>

----------------------------------------------------------------------------
(* Bounds *)

MaxNameLen == 2
MaxTime == 2
MaxClock == 1
MaxDay == 2

Absent == <<>>
Some(v) == <<v>>
IsSome(o) == o # <<>>
Get(o) == o[1]

NaN == -1

----------------------------------------------------------------------------
(* Inputs of BookingFormSchema *)

Actions == {"new", "save", "reserve", "other"}

BookingStatus ==
    {"DRAFT", "RESERVED", "ONGOING", "OVERDUE", "COMPLETED", "ARCHIVED",
     "CANCELLED"}

\* hints.timeZone: absent, or a zone whose wall clock is TzShift ticks ahead
\* of the wall clock of the zone the code runs in
TimeZones == {"Etc/GMT-1", "Etc/GMT+1"}
TzShift(tz) == IF tz = "Etc/GMT-1" THEN 1 ELSE 0 - 1
Hints == {Absent} \cup {Some(tz) : tz \in TimeZones}

RECURSIVE NameOfLen(_)
NameOfLen(n) == IF n = 0 THEN "" ELSE "a" \o NameOfLen(n - 1)
Names == {NameOfLen(n) : n \in 0..MaxNameLen}

CustodianTexts ==
    { "",
      "not-json",
      "{\"id\":\"tm_1\"}",
      "{\"id\":\"tm_1\",\"name\":\"Jane Doe\"}",
      "{\"id\":\"tm_2\",\"name\":\"Joe\",\"userId\":\"u_2\"}" }

\* a date field as submitted: absent, a text no date can be read from (NaN),
\* or a text denoting an instant
DateInputs == {Absent} \cup {Some(t) : t \in {NaN} \cup 0..MaxTime}

Records ==
    [ name : {Absent} \cup {Some(n) : n \in Names},
      assetIds : {Absent, Some(<<"a1">>)},
      description : {Absent, Some("d")},
      custodian : {Absent} \cup {Some(c) : c \in CustodianTexts},
      startDate : DateInputs,
      endDate : DateInputs,
      id : {Absent, Some("b1")} ]

Clocks == 0..MaxClock

----------------------------------------------------------------------------
(* The parse of one field.  A field's result carries zod's parse status    *)
(* ("valid", "dirty": issues were added and the parse went on, "aborted":  *)
(* the value has the wrong type), the issues, and the parsed value where a *)
(* later refinement reads it.  "threw" is an exception leaving the parse.  *)

Issue(path, message) == [path |-> path, message |-> message]

Valid(v) == [status |-> "valid", issues |-> {}, value |-> v]
Dirty(v, issues) == [status |-> "dirty", issues |-> issues, value |-> v]
Aborted(issues) == [status |-> "aborted", issues |-> issues, value |-> Absent]
Threw == [status |-> "threw", issues |-> {}, value |-> Absent]

MinNameLen == 2

\* name: z.string().min(2, "Name is required")
ParseName(v) ==
    IF ~IsSome(v) THEN Aborted({Issue(<<"name">>, "Required")})
    ELSE IF Len(Get(v)) < MinNameLen
         THEN Dirty(Absent, {Issue(<<"name">>, "Name is required")})
         ELSE Valid(Absent)

\* assetIds: z.array(z.string()).optional()
ParseAssetIds(v) == Valid(Absent)

\* description: z.string().optional()
ParseDescription(v) == Valid(Absent)

\* JSON.parse(val): the value parsed, or a SyntaxError
JSONParse(text) ==
    CASE text = "{\"id\":\"tm_1\"}" ->
           [ok |-> TRUE, id |-> Some("tm_1"), name |-> Absent, userId |-> Absent]
      [] text = "{\"id\":\"tm_1\",\"name\":\"Jane Doe\"}" ->
           [ok |-> TRUE, id |-> Some("tm_1"), name |-> Some("Jane Doe"),
            userId |-> Absent]
      [] text = "{\"id\":\"tm_2\",\"name\":\"Joe\",\"userId\":\"u_2\"}" ->
           [ok |-> TRUE, id |-> Some("tm_2"), name |-> Some("Joe"),
            userId |-> Some("u_2")]
      [] OTHER -> [ok |-> FALSE, id |-> Absent, name |-> Absent, userId |-> Absent]

\* the object the transformed custodian is piped into
ParseCustodianObject(obj) ==
    LET issues ==
          (IF IsSome(obj.id) THEN {}
           ELSE {Issue(<<"custodian", "id">>, "Required")})
          \cup
          (IF IsSome(obj.name) THEN {}
           ELSE {Issue(<<"custodian", "name">>, "Required")})
    IN IF issues = {} THEN Valid(Absent) ELSE Aborted(issues)

\* custodian: z.string().transform(...).pipe(z.object({id, name, userId}))
ParseCustodian(v) ==
    IF ~IsSome(v) THEN Aborted({Issue(<<"custodian">>, "Required")})
    ELSE IF Get(v) = ""
         THEN Dirty(Absent, {Issue(<<"custodian">>, "Please select a custodian")})
         ELSE LET parsed == JSONParse(Get(v))
              IN IF ~parsed.ok THEN Threw ELSE ParseCustodianObject(parsed)

\* new Date(input): the time value of the Date made of the input
CoerceDate(v) == IF IsSome(v) THEN Get(v) ELSE NaN

\* z.coerce.date()
ParseDate(field, v) ==
    LET t == CoerceDate(v)
    IN IF t = NaN THEN Aborted({Issue(<<field>>, "Invalid date")})
       ELSE Valid(Some(t))

\* z.coerce.date().optional()
ParseOptionalDate(field, v) ==
    IF ~IsSome(v) THEN Valid(Absent) ELSE ParseDate(field, v)

\* "now" of the future-date check at the instant `clock`
Now(hints, clock) ==
    IF IsSome(hints) THEN clock + TzShift(Get(hints)) ELSE clock

\* startDateSchema: z.coerce.date().refine(data > now)
startDateSchema(v, hints, clock) ==
    LET base == ParseDate("startDate", v)
    IN IF base.status # "valid" THEN base
       ELSE IF Get(base.value) > Now(hints, clock) THEN base
            ELSE Dirty(base.value,
                       {Issue(<<"startDate">>, "Start date must be in the future")})

\* id: z.string()
ParseId(v) ==
    IF IsSome(v) THEN Valid(Absent) ELSE Aborted({Issue(<<"id">>, "Required")})

----------------------------------------------------------------------------
(* The parse of a record by an object schema: every field of the shape is  *)
(* parsed, the issues of all of them are collected, and the object is      *)
(* aborted when a field is, dirty when a field is dirty.  A refinement of  *)
(* the object runs unless the object is aborted.                           *)

MergeObject(fields) ==
    LET statuses == {f.status : f \in fields}
    IN [ status |-> IF "threw" \in statuses THEN "threw"
                    ELSE IF "aborted" \in statuses THEN "aborted"
                    ELSE IF "dirty" \in statuses THEN "dirty"
                    ELSE "valid",
         issues |-> IF "threw" \in statuses THEN {}
                    ELSE UNION {f.issues : f \in fields} ]

WithDates(obj, start, end) ==
    [status |-> obj.status, issues |-> obj.issues,
     startDate |-> start.value, endDate |-> end.value]

\* the fields of baseSchema other than the dates
BaseFields(rec) ==
    { ParseName(rec.name), ParseAssetIds(rec.assetIds),
      ParseDescription(rec.description),
      ParseCustodian(rec.custodian) }

\* baseSchema
baseSchema(rec) ==
    LET start == ParseOptionalDate("startDate", rec.startDate)
        end == ParseOptionalDate("endDate", rec.endDate)
    IN WithDates(MergeObject(BaseFields(rec) \cup {start, end}), start, end)

\* fullSchema = baseSchema.extend({startDate: startDateSchema, endDate})
fullSchema(rec, hints, clock) ==
    LET start == startDateSchema(rec.startDate, hints, clock)
        end == ParseDate("endDate", rec.endDate)
    IN WithDates(MergeObject(BaseFields(rec) \cup {start, end}), start, end)

\* fullSchema.extend({id: z.string()})
fullSchemaExtendId(rec, hints, clock) ==
    LET start == startDateSchema(rec.startDate, hints, clock)
        end == ParseDate("endDate", rec.endDate)
    IN WithDates(MergeObject(BaseFields(rec) \cup {start, end, ParseId(rec.id)}),
                 start, end)

\* data.endDate && data.startDate && data.endDate > data.startDate
EndAfterStart(data) ==
    /\ IsSome(data.endDate)
    /\ IsSome(data.startDate)
    /\ Get(data.endDate) > Get(data.startDate)

EndDateIssue ==
    Issue(<<"endDate">>, "End date cannot be earlier than start date")

\* .refine(EndAfterStart, {message, path: ["endDate"]})
RefineEndAfterStart(obj) ==
    IF obj.status \in {"threw", "aborted"} THEN obj
    ELSE IF EndAfterStart(obj) THEN obj
         ELSE [obj EXCEPT !.status = "dirty",
                          !.issues = obj.issues \cup {EndDateIssue}]

\* the schema returned for action "new"
fullSchemaRefined(rec, hints, clock) ==
    RefineEndAfterStart(fullSchema(rec, hints, clock))

\* fullSchemaWithId
fullSchemaWithId(rec, hints, clock) ==
    RefineEndAfterStart(fullSchemaExtendId(rec, hints, clock))

----------------------------------------------------------------------------
(* BookingFormSchema({hints, action, status}): the schema returned, or     *)
(* "threw" for the Error of a save without status.                         *)

Schemas == {"baseSchema", "fullSchemaRefined", "fullSchemaWithId"}

\* a selector that falls back to the base schema for a save without status
BookingFormSchemaNoStatusCheck(hints, action, status) ==
    CASE action = "new" -> "fullSchemaRefined"
      [] action = "reserve" -> "fullSchemaWithId"
      [] action = "save" /\ status = Some("DRAFT") -> "fullSchemaWithId"
      [] OTHER -> "baseSchema"

\* a selector that gives the save of a DRAFT the schema of "new"
BookingFormSchemaDraftAsNew(hints, action, status) ==
    CASE action = "new" -> "fullSchemaRefined"
      [] action = "reserve" -> "fullSchemaWithId"
      [] action = "save" ->
           IF ~IsSome(status) THEN "threw"
           ELSE IF Get(status) = "DRAFT" THEN "fullSchemaRefined"
                ELSE "baseSchema"
      [] OTHER -> "baseSchema"

\* a selector whose inner switch defaults to the full schema
BookingFormSchemaInnerDefault(hints, action, status) ==
    CASE action = "new" -> "fullSchemaRefined"
      [] action = "reserve" -> "fullSchemaWithId"
      [] action = "save" ->
           IF ~IsSome(status) THEN "threw"
           ELSE IF Get(status) \in {"RESERVED", "ONGOING", "OVERDUE"}
                THEN "baseSchema"
                ELSE "fullSchemaWithId"
      [] OTHER -> "baseSchema"

BookingFormSchema(hints, action, status) ==
    CASE action = "new" -> "fullSchemaRefined"
      [] action = "reserve" -> "fullSchemaWithId"
      [] action = "save" ->
           IF ~IsSome(status) THEN "threw"
           ELSE CASE Get(status) = "DRAFT" -> "fullSchemaWithId"
                  [] Get(status) \in {"RESERVED", "ONGOING", "OVERDUE"} ->
                       "baseSchema"
                  [] OTHER -> "baseSchema"
      [] OTHER -> "baseSchema"

\* schema.safeParse(rec) at the instant `clock`
SafeParse(sch, rec, hints, clock) ==
    LET res == CASE sch = "baseSchema" -> baseSchema(rec)
                 [] sch = "fullSchemaRefined" -> fullSchemaRefined(rec, hints, clock)
                 [] sch = "fullSchemaWithId" -> fullSchemaWithId(rec, hints, clock)
    IN [ kind |-> CASE res.status = "threw" -> "threw"
                    [] res.status = "valid" -> "success"
                    [] OTHER -> "error",
         issues |-> res.issues ]

NoOutcome == [kind |-> "none", issues |-> {}]

----------------------------------------------------------------------------
(* The selector and the parse as steps *)

SchemaIdle ==
    /\ args = Absent
    /\ schema = "none"
    /\ input = Absent
    /\ outcome = NoOutcome

\* a caller calls BookingFormSchema
SelectSchema ==
    /\ args = Absent
    /\ \E hints \in Hints, action \in Actions,
          status \in {Absent} \cup {Some(st) : st \in BookingStatus} :
         /\ args' = Some([hints |-> hints, action |-> action, status |-> status])
         /\ schema' = BookingFormSchema(hints, action, status)
    /\ UNCHANGED <<input, outcome>>
    /\ UNCHANGED <<formVars, viewVars>>

\* the schema returned validates a record
Validate ==
    /\ schema \in Schemas
    /\ input = Absent
    /\ \E rec \in Records, clock \in Clocks :
         /\ input' = Some([rec |-> rec, clock |-> clock])
         /\ outcome' = SafeParse(schema, rec, Get(args).hints, clock)
    /\ UNCHANGED <<args, schema>>
    /\ UNCHANGED <<formVars, viewVars>>

----------------------------------------------------------------------------
(* BookingForm: the start-date and end-date inputs.                        *)
(* The value of a datetime-local input is a text: <<>> is the empty text,  *)
(* <<d, h, m>> is "YYYY-MM-DDTHH:MM" on day d, <<d, h, m, s>> the same     *)
(* with ":SS".  A Date is its time value in seconds of local time.         *)

EmptyText == <<>>
HourChoices == {9, 18, 19}
MinuteChoices == {0, 30}
DateTexts == {<<d, h, m>> : d \in 0..MaxDay, h \in HourChoices, m \in MinuteChoices}

SecondsPerMinute == 60
SecondsPerHour == 3600
SecondsPerDay == 86400

\* new Date(text) of a datetime-local text, as local time
DateOfText(text) ==
    CASE Len(text) = 3 ->
           text[1] * SecondsPerDay + text[2] * SecondsPerHour
             + text[3] * SecondsPerMinute
      [] Len(text) = 4 ->
           text[1] * SecondsPerDay + text[2] * SecondsPerHour
             + text[3] * SecondsPerMinute + text[4]
      [] OTHER -> NaN

\* date.setHours(h, m, s): the same local calendar day at h:m:s
SetHours(t, h, m, s) ==
    (t \div SecondsPerDay) * SecondsPerDay + h * SecondsPerHour
      + m * SecondsPerMinute + s

\* dateForDateTimeInputValue(date): the local "YYYY-MM-DDTHH:MM:SS" of a Date
dateForDateTimeInputValue(t) ==
    << t \div SecondsPerDay,
       (t % SecondsPerDay) \div SecondsPerHour,
       (t % SecondsPerHour) \div SecondsPerMinute,
       t % SecondsPerMinute >>

\* text.substring(0, text.length - 3): the text without its ":SS"
DropLastThree(text) == SubSeq(text, 1, Len(text) - 1)

\* a JavaScript string used as a condition: undefined and "" are falsy
Truthy(o) == IsSome(o) /\ Get(o) # EmptyText

\* a > b on Dates: false when either is an Invalid Date
DateAfter(a, b) == a # NaN /\ b # NaN /\ a > b

\* an adjuster condition that does not look at isNewBooking
ShouldAdjustEndDateAnyBooking(bookingId, end, newStart) ==
    /\ Truthy(end)
    /\ DateAfter(DateOfText(newStart), DateOfText(Get(end)))

\* isNewBooking && endDate && newStartDate > new Date(endDate)
ShouldAdjustEndDate(bookingId, end, newStart) ==
    /\ ~IsSome(bookingId)
    /\ Truthy(end)
    /\ DateAfter(DateOfText(newStart), DateOfText(Get(end)))

EndHour == 18

\* the end date set by the start-date handler
AdjustedEndDate(newStart) ==
    DropLastThree(
        dateForDateTimeInputValue(SetHours(DateOfText(newStart), EndHour, 0, 0)))

FormIdle ==
    /\ id = Absent
    /\ incomingEndDate = Absent
    /\ endDate = Absent
    /\ startValue = EmptyText
    /\ lastEvent = [kind |-> "none", value |-> EmptyText, setEnd |-> FALSE]

\* the form is rendered for a booking: useState(incomingEndDate)
FormMounted ==
    /\ id \in {Absent, Some("b1")}
    /\ incomingEndDate \in {Absent} \cup {Some(x) : x \in DateTexts}
    /\ endDate = incomingEndDate
    /\ startValue \in {EmptyText} \cup DateTexts
    /\ lastEvent = [kind |-> "mount", value |-> EmptyText, setEnd |-> FALSE]

\* onChange of the start-date input
StartDateOnChange ==
    \E value \in {EmptyText} \cup DateTexts :
        /\ value # startValue
        /\ startValue' = value
        /\ IF ShouldAdjustEndDate(id, endDate, value)
           THEN /\ endDate' = Some(AdjustedEndDate(value))
                /\ lastEvent' = [kind |-> "startDate", value |-> value,
                                 setEnd |-> TRUE]
           ELSE /\ endDate' = endDate
                /\ lastEvent' = [kind |-> "startDate", value |-> value,
                                 setEnd |-> FALSE]
        /\ UNCHANGED <<id, incomingEndDate>>
        /\ UNCHANGED <<schemaVars, viewVars>>

\* an end-date handler that pulls the start date back to the new end date
EndDateOnChangeFeedback ==
    \E value \in {EmptyText} \cup DateTexts :
        /\ Some(value) # endDate
        /\ endDate' = Some(value)
        /\ startValue' = IF DateAfter(DateOfText(startValue), DateOfText(value))
                         THEN value ELSE startValue
        /\ lastEvent' = [kind |-> "endDate", value |-> value, setEnd |-> TRUE]
        /\ UNCHANGED <<id, incomingEndDate>>
        /\ UNCHANGED <<schemaVars, viewVars>>

\* onChange of the end-date input: setEndDate(event.target.value)
EndDateOnChange ==
    \E value \in {EmptyText} \cup DateTexts :
        /\ Some(value) # endDate
        /\ endDate' = Some(value)
        /\ lastEvent' = [kind |-> "endDate", value |-> value, setEnd |-> TRUE]
        /\ UNCHANGED <<id, incomingEndDate, startValue>>
        /\ UNCHANGED <<schemaVars, viewVars>>

\* useEffect updateEndDate, run when the incomingEndDate prop changes
UpdateEndDate ==
    \E incoming \in {Absent} \cup {Some(x) : x \in DateTexts} :
        /\ incoming # incomingEndDate
        /\ incomingEndDate' = incoming
        /\ IF Truthy(incoming)
           THEN /\ endDate' = incoming
                /\ lastEvent' = [kind |-> "props", value |-> Get(incoming),
                                 setEnd |-> TRUE]
           ELSE /\ endDate' = endDate
                /\ lastEvent' = [kind |-> "props", value |-> EmptyText,
                                 setEnd |-> FALSE]
        /\ UNCHANGED <<id, startValue>>
        /\ UNCHANGED <<schemaVars, viewVars>>

----------------------------------------------------------------------------
(* BookingForm: the action buttons of the header.  The disabled prop of a  *)
(* button is `false` ([disabled |-> FALSE]) or an object with a reason     *)
(* that may be undefined.                                                  *)

BookingFlags ==
    [ hasAssets : BOOLEAN,
      hasUnavailableAssets : BOOLEAN,
      hasCheckedOutAssets : BOOLEAN,
      hasAlreadyBookedAssets : BOOLEAN,
      hasAssetsInCustody : BOOLEAN ]

FormProps ==
    [ status : {Absent} \cup {Some(st) : st \in BookingStatus},
      bookingFlags : {Absent} \cup {Some(f) : f \in BookingFlags},
      canSeeActions : BOOLEAN,
      canCheckOutBooking : BOOLEAN ]

NavigationStates == {"idle", "submitting", "loading"}

\* isFormProcessing(navigation.state)
isFormProcessing(state) == state \in {"submitting", "loading"}

\* useBookingStatusHelpers(status): isDraft, isReserved, isArchived, ...
StatusIs(status, st) == status = Some(st)

\* bookingFlags?.flag as a condition
Flag(flags, name) == IsSome(flags) /\ Get(flags)[name]

NotDisabled == [disabled |-> FALSE, reason |-> Absent]
DisabledWith(reason) == [disabled |-> TRUE, reason |-> reason]

ReasonUnavailable ==
    "You have some assets in your booking that are marked as unavailble. Either remove the assets from this booking or make them available again"
ReasonAlreadyBooked ==
    "Your booking has assets that are already booked for the desired period. You need to resolve that before you can reserve"
ReasonNoAssets ==
    "You need to add assets to your booking before you can reserve it"
ReasonInCustody ==
    "Some assets in this booking are currently in custody. You need to resolve that before you can check-out"
ReasonNotAvailable ==
    "Some assets in this booking are not Available because they're part of an Ongoing or Overdue booking"

\* disabled = isProcessing || bookingStatus?.isArchived
FormDisabled(p, nav) ==
    isFormProcessing(nav) \/ StatusIs(p.status, "ARCHIVED")

\* the disabled prop of the reserve button
ReserveDisabled(p, nav) ==
    IF \/ FormDisabled(p, nav)
       \/ ~Flag(p.bookingFlags, "hasAssets")
       \/ Flag(p.bookingFlags, "hasAlreadyBookedAssets")
       \/ Flag(p.bookingFlags, "hasUnavailableAssets")
    THEN DisabledWith(
           IF Flag(p.bookingFlags, "hasUnavailableAssets")
           THEN Some(ReasonUnavailable)
           ELSE IF Flag(p.bookingFlags, "hasAlreadyBookedAssets")
                THEN Some(ReasonAlreadyBooked)
                ELSE IF isFormProcessing(nav) THEN Absent
                     ELSE Some(ReasonNoAssets))
    ELSE NotDisabled

\* the disabled prop of CheckoutDialog
CheckoutDisabled(p, nav) ==
    IF \/ FormDisabled(p, nav)
       \/ Flag(p.bookingFlags, "hasUnavailableAssets")
       \/ Flag(p.bookingFlags, "hasCheckedOutAssets")
       \/ Flag(p.bookingFlags, "hasAssetsInCustody")
    THEN DisabledWith(
           IF Flag(p.bookingFlags, "hasAssetsInCustody")
           THEN Some(ReasonInCustody)
           ELSE IF isFormProcessing(nav) THEN Absent
                ELSE Some(ReasonNotAvailable))
    ELSE NotDisabled

\* the header actions are rendered in edit mode for who can see them
ActionsRendered(bookingId, p) == IsSome(bookingId) /\ p.canSeeActions

\* the action buttons BookingForm renders: <<>> for a button not rendered
Render(bookingId, p, nav) ==
    [ reserve |->
        IF ActionsRendered(bookingId, p) /\ StatusIs(p.status, "DRAFT")
        THEN Some(ReserveDisabled(p, nav)) ELSE Absent,
      checkout |->
        IF /\ ActionsRendered(bookingId, p)
           /\ StatusIs(p.status, "RESERVED")
           /\ p.canCheckOutBooking
        THEN Some(CheckoutDisabled(p, nav)) ELSE Absent ]

ViewIdle ==
    /\ props = Absent
    /\ navigationState = "idle"
    /\ view = [reserve |-> Absent, checkout |-> Absent]

\* the form is rendered for a booking
ViewRendered ==
    /\ id \in {Absent, Some("b1")}
    /\ incomingEndDate = Absent
    /\ endDate = Absent
    /\ startValue = EmptyText
    /\ lastEvent = [kind |-> "mount", value |-> EmptyText, setEnd |-> FALSE]
    /\ \E p \in FormProps :
         /\ props = Some(p)
         /\ navigationState = "idle"
         /\ view = Render(id, p, "idle")

\* the navigation changes state (a submission starts, loads, ends) and the
\* form renders again
Navigate ==
    /\ IsSome(props)
    /\ \E nav \in NavigationStates :
         /\ nav # navigationState
         /\ navigationState' = nav
         /\ view' = Render(id, Get(props), nav)
    /\ UNCHANGED props
    /\ UNCHANGED <<schemaVars, formVars>>

\* the loader hands the form new booking flags and the form renders again
FlagsReloaded ==
    /\ IsSome(props)
    /\ \E flags \in {Absent} \cup {Some(f) : f \in BookingFlags} :
         /\ flags # Get(props).bookingFlags
         /\ props' = Some([Get(props) EXCEPT !.bookingFlags = flags])
         /\ view' = Render(id, Get(props'), navigationState)
    /\ UNCHANGED navigationState
    /\ UNCHANGED <<schemaVars, formVars>>

----------------------------------------------------------------------------
(* Specifications *)

Init == SchemaIdle /\ FormIdle /\ ViewIdle

Next == SelectSchema \/ Validate

Spec == Init /\ [][Next]_vars

FormInit == SchemaIdle /\ FormMounted /\ ViewIdle

FormNext == StartDateOnChange \/ EndDateOnChange \/ UpdateEndDate

FormSpec == FormInit /\ [][FormNext]_vars

ActionsInit == SchemaIdle /\ ViewRendered

ActionsNext == Navigate \/ FlagsReloaded

ActionsSpec == ActionsInit /\ [][ActionsNext]_vars

----------------------------------------------------------------------------
(* Claims about the selector and the schemas (Spec) *)

Called == IsSome(args)
Parsed == IsSome(input)
TheAction == Get(args).action
TheStatus == Get(args).status
TheHints == Get(args).hints
TheRecord == Get(input).rec
TheClock == Get(input).clock

FutureIssue == Issue(<<"startDate">>, "Start date must be in the future")
CustodianIssue == Issue(<<"custodian">>, "Please select a custodian")
GoodCustodians ==
    { "{\"id\":\"tm_1\",\"name\":\"Jane Doe\"}",
      "{\"id\":\"tm_2\",\"name\":\"Joe\",\"userId\":\"u_2\"}" }
IsDate(v) == IsSome(v) /\ Get(v) # NaN
IssueFields == {Head(i.path) : i \in outcome.issues}

\* C1: a call with action "save" and no status throws, whatever the hints
\* are; it returns no schema.
C1_SaveWithoutStatusThrows ==
    (Called /\ TheAction = "save" /\ ~IsSome(TheStatus)) => schema = "threw"

C1_Witness ==
    /\ Called /\ TheAction = "save" /\ ~IsSome(TheStatus) /\ IsSome(TheHints)
    /\ schema = "threw"

\* C2: for a save of a RESERVED, ONGOING or OVERDUE booking, a record with
\* only a valid name and a description is accepted, and every record whose
\* name has length 1 is rejected.
C2_NameAndDescriptionSuffice ==
    (Parsed /\ TheAction = "save" /\ IsSome(TheStatus)
       /\ Get(TheStatus) \in {"RESERVED", "ONGOING", "OVERDUE"}) =>
      /\ ( /\ IsSome(TheRecord.name) /\ Len(Get(TheRecord.name)) >= 2
           /\ IsSome(TheRecord.description)
           /\ ~IsSome(TheRecord.custodian) /\ ~IsSome(TheRecord.assetIds)
           /\ ~IsSome(TheRecord.startDate) /\ ~IsSome(TheRecord.endDate)
           /\ ~IsSome(TheRecord.id) ) => outcome.kind = "success"
      /\ (IsSome(TheRecord.name) /\ Len(Get(TheRecord.name)) = 1) =>
           outcome.kind = "error"

\* C3: a parse never throws: its outcome is a success or field-keyed
\* errors; an empty custodian gives "Please select a custodian", a custodian
\* that is no JSON gives an error on custodian, a well-formed {id, name}
\* gives no error on custodian.
C3_ParseNeverThrows ==
    Parsed =>
      /\ outcome.kind \in {"success", "error"}
      /\ outcome.kind = "error" => outcome.issues # {}
      /\ TheRecord.custodian = Some("") => CustodianIssue \in outcome.issues
      /\ TheRecord.custodian = Some("not-json") =>
           (outcome.kind = "error" /\ "custodian" \in IssueFields)
      /\ (IsSome(TheRecord.custodian) /\ Get(TheRecord.custodian) \in GoodCustodians)
           => "custodian" \notin IssueFields

\* C4: for action "new", a start date at or before now is rejected with
\* "Start date must be in the future", and a start date after now does not
\* get that error.
C4_StartMustBeInFuture ==
    (Parsed /\ TheAction = "new" /\ IsDate(TheRecord.startDate)) =>
      IF Get(TheRecord.startDate) <= Now(TheHints, TheClock)
      THEN outcome.kind = "error" /\ FutureIssue \in outcome.issues
      ELSE FutureIssue \notin outcome.issues

CompleteAndValid(rec, hints, clock) ==
    /\ IsSome(rec.name) /\ Len(Get(rec.name)) >= 2
    /\ IsSome(rec.custodian) /\ Get(rec.custodian) \in GoodCustodians
    /\ IsDate(rec.startDate) /\ Get(rec.startDate) > Now(hints, clock)
    /\ IsDate(rec.endDate) /\ Get(rec.endDate) > Get(rec.startDate)

\* C5: for action "reserve", every record without id is rejected, and every
\* otherwise complete and valid record with an id is accepted.
C5_ReserveRequiresId ==
    (Parsed /\ TheAction = "reserve") =>
      /\ ~IsSome(TheRecord.id) => outcome.kind = "error"
      /\ (IsSome(TheRecord.id) /\ CompleteAndValid(TheRecord, TheHints, TheClock))
           => outcome.kind = "success"

IsSaveDraft == TheAction = "save" /\ TheStatus = Some("DRAFT")

\* C6: the schema of a save of a DRAFT booking and the schema of "reserve"
\* give every record the same outcome at every instant: the same verdict and
\* the same issues; both require id and apply both date checks.
C6_SaveDraftIsReserve ==
    (Parsed /\ (IsSaveDraft \/ TheAction = "reserve")) =>
      /\ outcome = SafeParse(BookingFormSchema(TheHints, "reserve", TheStatus),
                             TheRecord, TheHints, TheClock)
      /\ outcome = SafeParse(BookingFormSchema(TheHints, "save", Some("DRAFT")),
                             TheRecord, TheHints, TheClock)
      /\ ~IsSome(TheRecord.id) => outcome.kind # "success"
      /\ (IsDate(TheRecord.startDate)
            /\ Get(TheRecord.startDate) <= Now(TheHints, TheClock))
           => outcome.kind # "success"
      /\ (IsDate(TheRecord.startDate) /\ IsDate(TheRecord.endDate)
            /\ Get(TheRecord.endDate) <= Get(TheRecord.startDate))
           => outcome.kind # "success"

C6_Witness ==
    /\ Parsed /\ IsSaveDraft
    /\ outcome.kind = "error"
    /\ outcome.issues = {FutureIssue, EndDateIssue}

\* C7: where both dates are validated (new, reserve, save of a DRAFT), every
\* record with endDate <= startDate is rejected with "End date cannot be
\* earlier than start date" on endDate, whatever its other fields are.
C7_EndBeforeStartRejected ==
    (Parsed /\ (TheAction \in {"new", "reserve"} \/ IsSaveDraft)
       /\ IsDate(TheRecord.startDate) /\ IsDate(TheRecord.endDate)
       /\ Get(TheRecord.endDate) <= Get(TheRecord.startDate)) =>
      (outcome.kind = "error" /\ EndDateIssue \in outcome.issues)

FallsToBase ==
    \/ TheAction \notin {"new", "reserve", "save"}
    \/ /\ TheAction = "save"
       /\ IsSome(TheStatus)
       /\ Get(TheStatus) \in {"COMPLETED", "CANCELLED", "ARCHIVED"}

\* C8: every (action, status) with a status present selects a schema; a save
\* of a COMPLETED, CANCELLED or ARCHIVED booking and any other action select
\* the base schema, which makes neither date check and requires neither id
\* nor dates.
C8_SelectionTotalAndBaseFallthrough ==
    /\ (Called /\ IsSome(TheStatus)) => schema \in Schemas
    /\ (Called /\ FallsToBase) => schema = "baseSchema"
    /\ (Parsed /\ FallsToBase) =>
         /\ FutureIssue \notin outcome.issues
         /\ EndDateIssue \notin outcome.issues
         /\ "id" \notin IssueFields
         /\ ~IsSome(TheRecord.startDate) => "startDate" \notin IssueFields
         /\ ~IsSome(TheRecord.endDate) => "endDate" \notin IssueFields
         /\ ( /\ IsSome(TheRecord.name) /\ Len(Get(TheRecord.name)) >= 2
              /\ IsSome(TheRecord.custodian)
              /\ Get(TheRecord.custodian) \in GoodCustodians
              /\ ~IsSome(TheRecord.startDate) /\ ~IsSome(TheRecord.endDate)
              /\ ~IsSome(TheRecord.id) ) => outcome.kind = "success"

C8_Witness ==
    /\ Parsed /\ TheAction = "save" /\ TheStatus = Some("CANCELLED")
    /\ ~IsSome(TheRecord.id)
    /\ IsDate(TheRecord.startDate) /\ IsDate(TheRecord.endDate)
    /\ Get(TheRecord.endDate) < Get(TheRecord.startDate)
    /\ Get(TheRecord.startDate) < Now(TheHints, TheClock)
    /\ outcome.kind = "success"

----------------------------------------------------------------------------
(* Claims about the date adjuster (FormSpec) *)

\* the adjuster's condition as the claims state it
AdjusterCondition(bookingId, end, newStart) ==
    /\ bookingId = Absent
    /\ end # Absent /\ end # Some(EmptyText)
    /\ newStart # EmptyText
    /\ DateOfText(newStart) > DateOfText(Get(end))

\* C9: a start-date change recomputes the end date exactly when the booking
\* is new, an end date is present and the new start is after it; the new
\* end date is then 18:00 of the day of the new start, without seconds.
C9_AdjustsExactlyWhenStartPassesEnd ==
    [][ lastEvent'.kind = "startDate" =>
          /\ lastEvent'.setEnd <=> AdjusterCondition(id, endDate, lastEvent'.value)
          /\ lastEvent'.setEnd =>
               endDate' = Some(<<lastEvent'.value[1], 18, 0>>) ]_vars

C9_Witness ==
    /\ lastEvent.kind = "startDate" /\ lastEvent.setEnd
    /\ id = Absent
    /\ lastEvent.value[2] = 9
    /\ endDate = Some(<<lastEvent.value[1], 18, 0>>)

\* C10: a start-date change that does not meet the adjuster's condition
\* leaves the end date as it was; an end-date edit sets the end date to the
\* entered value and leaves the start date as it was.
C10_EditsAreFramed ==
    [][ /\ ( /\ lastEvent'.kind = "startDate"
             /\ ~AdjusterCondition(id, endDate, lastEvent'.value) )
            => endDate' = endDate
        /\ lastEvent'.kind = "endDate" =>
             /\ endDate' = Some(lastEvent'.value)
             /\ startValue' = startValue ]_vars

C10_Witness ==
    /\ lastEvent.kind = "endDate"
    /\ startValue # EmptyText
    /\ endDate # Some(EmptyText)
    /\ DateOfText(Get(endDate)) < DateOfText(startValue)

\* C12: for a new booking with an end date present, once a start-date change
\* has been handled the end date is strictly later than the new start date,
\* whatever the time of day of the new start is.
C12_EndAfterStartOnceHandled ==
    ( /\ lastEvent.kind = "startDate"
      /\ id = Absent
      /\ Truthy(endDate)
      /\ lastEvent.value # EmptyText ) =>
        DateOfText(Get(endDate)) > DateOfText(lastEvent.value)

----------------------------------------------------------------------------
(* Claims about the action buttons (ActionsSpec) *)

HasReason(button) ==
    /\ button.disabled
    /\ IsSome(button.reason)
    /\ Get(button.reason) # ""

TheFlags == Get(Get(props).bookingFlags)

\* C11: whenever the flags forbid the transition, the button is disabled and
\* carries a non-empty reason, also while a submission is processing: the
\* reserve button of a DRAFT booking when hasAssets is false or
\* hasAlreadyBookedAssets or hasUnavailableAssets is true, the check-out
\* control of a RESERVED booking when hasUnavailableAssets,
\* hasCheckedOutAssets or hasAssetsInCustody is true.
C11_IllegalTransitionHasReason ==
    (IsSome(props) /\ IsSome(Get(props).bookingFlags)) =>
      /\ ( /\ IsSome(view.reserve)
           /\ \/ ~TheFlags.hasAssets
              \/ TheFlags.hasAlreadyBookedAssets
              \/ TheFlags.hasUnavailableAssets )
           => HasReason(Get(view.reserve))
      /\ ( /\ IsSome(view.checkout)
           /\ \/ TheFlags.hasUnavailableAssets
              \/ TheFlags.hasCheckedOutAssets
              \/ TheFlags.hasAssetsInCustody )
           => HasReason(Get(view.checkout))

====
